---- MODULE Spec2Model ----
(***************************************************************************)
(* MyFox portable launcher (tools/portable_launcher.c): wWinMain as a      *)
(* state machine over the Win32 calls it makes.  Paths, command lines and  *)
(* dialog texts are sequences of one-character strings, so formatting,     *)
(* truncation and PathRemoveFileSpecW are computed character by character. *)
(***************************************************************************)
EXTENDS Integers, Sequences, FiniteSets, TLC

\* ------------------------------------------------------------- bounds
\* Number of times the launcher is started against the same install.
MaxRuns == 2

\* ------------------------------------------------- buffer sizes (WCHARs)
MAX_PATH == 260

\* WCHAR ff_exe[MAX_PATH + 64]; profile, data_dir and ff_dir have the same size
PathBufSize == MAX_PATH + 64

CmdlineSizeShort == MAX_PATH * 2

\* WCHAR cmdline[MAX_PATH * 3]
CmdlineSize == MAX_PATH * 3

\* WCHAR err_msg[256]
ErrMsgSize == 256

\* ------------------------------------------------------ string literals
Fmt64 == <<"\\", "A", "p", "p", "\\", "F", "i", "r", "e", "f", "o", "x", "6", "4", "\\", "f", "i", "r", "e", "f", "o", "x", ".", "e", "x", "e">>

Fmt32 == <<"\\", "A", "p", "p", "\\", "F", "i", "r", "e", "f", "o", "x", "\\", "f", "i", "r", "e", "f", "o", "x", ".", "e", "x", "e">>

FmtData == <<"\\", "D", "a", "t", "a">>

FmtProfile == <<"\\", "D", "a", "t", "a", "\\", "p", "r", "o", "f", "i", "l", "e">>

Quote == <<"\"">>

OptProfile == <<" ", "-", "p", "r", "o", "f", "i", "l", "e", " ">>

OptNoRemote == <<" ", "-", "n", "o", "-", "r", "e", "m", "o", "t", "e">>

PathErrorMsg == <<"F", "a", "i", "l", "e", "d", " ", "t", "o", " ", "g", "e", "t", " ", "e", "x", "e", "c", "u", "t", "a", "b", "l", "e", " ", "p", "a", "t", "h", ".">>

NotFoundMsg == <<"F", "i", "r", "e", "f", "o", "x", " ", "n", "o", "t", " ", "f", "o", "u", "n", "d", ".", "\n", "\n", "E", "x", "p", "e", "c", "t", "e", "d", " ", "a", "t", ":", "\n", " ", " ", "A", "p", "p", "\\", "F", "i", "r", "e", "f", "o", "x", "6", "4", "\\", "f", "i", "r", "e", "f", "o", "x", ".", "e", "x", "e", "\n", " ", " ", "A", "p", "p", "\\", "F", "i", "r", "e", "f", "o", "x", "\\", "f", "i", "r", "e", "f", "o", "x", ".", "e", "x", "e">>

SpawnErrorFmt == <<"F", "a", "i", "l", "e", "d", " ", "t", "o", " ", "l", "a", "u", "n", "c", "h", " ", "F", "i", "r", "e", "f", "o", "x", ".", "\n", "\n", "E", "r", "r", "o", "r", " ", "c", "o", "d", "e", ":", " ">>

\* ------------------------------------------------------- library calls
\* StringCchPrintfW / StringCchCopyW: the formatted text, cut to cchDest - 1
\* characters when it does not fit (the status code is not looked at).
StringCch(cchDest, s) ==
    IF Len(s) < cchDest THEN s ELSE SubSeq(s, 1, cchDest - 1)

Digits == <<"0", "1", "2", "3", "4", "5", "6", "7", "8", "9">>

RECURSIVE FormatLu(_)
\* %lu of a DWORD
FormatLu(n) ==
    IF n < 10 THEN <<Digits[n + 1]>>
    ELSE FormatLu(n \div 10) \o <<Digits[(n % 10) + 1]>>

RECURSIVE ScanFileSpec(_, _, _)
\* The scan of PathRemoveFileSpecW: i is the read position, spec the start of
\* the file part found so far (positions are 1-based, Len(p)+1 is the NUL).
\* Characters other than "\" and ":" change nothing, so the scan moves straight
\* to the next of those.
ScanFileSpec(p, i, spec) ==
    LET marks == {j \in i..Len(p) : p[j] = "\\" \/ p[j] = ":"}
    IN  IF marks = {} THEN spec
        ELSE LET j == CHOOSE m \in marks : \A k \in marks : m <= k
             IN  IF p[j] = "\\" THEN ScanFileSpec(p, j + 1, j)
                 ELSE IF j + 1 <= Len(p) /\ p[j + 1] = "\\"
                      THEN ScanFileSpec(p, j + 2, j + 2)
                      ELSE ScanFileSpec(p, j + 2, j + 1)

\* PathRemoveFileSpecW(p): drops the last component and its backslash; a
\* leading "\" or "\\" and the backslash after a drive letter are kept.
PathRemoveFileSpecW(p) ==
    LET s1   == IF Len(p) >= 1 /\ p[1] = "\\" THEN 2 ELSE 1
        s2   == IF Len(p) >= s1 /\ p[s1] = "\\" THEN s1 + 1 ELSE s1
        spec == ScanFileSpec(p, s2, s2)
    IN  IF spec <= Len(p) THEN SubSeq(p, 1, spec - 1) ELSE p

\* GetModuleFileNameW(NULL, buf, nSize): 0 on failure, the length when the
\* path fits, nSize when it had to be cut.
GetModuleFileNameW(path, nSize, fails) ==
    IF fails THEN 0
    ELSE IF Len(path) < nSize THEN Len(path) ELSE nSize

\* GetFileAttributesW(path) != INVALID_FILE_ATTRIBUTES
HasAttributes(path, fs_files, fs_dirs) == path \in fs_files \cup fs_dirs

\* CreateDirectoryW(path, NULL): the outcomes the file system can produce.
\* 183 = ERROR_ALREADY_EXISTS, 3 = ERROR_PATH_NOT_FOUND, 5 = ERROR_ACCESS_DENIED.
CreateDirectoryW(path, fs_files, fs_dirs) ==
    IF path \in fs_files \cup fs_dirs
    THEN {[ok |-> FALSE, err |-> 183, dirs |-> fs_dirs]}
    ELSE IF PathRemoveFileSpecW(path) \notin fs_dirs
    THEN {[ok |-> FALSE, err |-> 3, dirs |-> fs_dirs]}
    ELSE {[ok |-> TRUE, err |-> 0, dirs |-> fs_dirs \cup {path}],
          [ok |-> FALSE, err |-> 5, dirs |-> fs_dirs]}

\* CreateProcessW: 0 = started, otherwise the error code it leaves behind
\* (2 = ERROR_FILE_NOT_FOUND, 740 = ERROR_ELEVATION_REQUIRED).
SpawnOutcomes == {0, 2, 740}

\* ------------------------------------------------------- installations
Pad(n) == [i \in 1..n |-> "a"]

ExeName == <<"\\", "M", "y", "F", "o", "x", ".", "e", "x", "e">>

Drive == <<"C", ":", "\\">>

\* An install whose launcher path has exactly n characters.
LongInstall(n) ==
    LET root == Drive \o Pad(n - Len(Drive) - Len(ExeName))
    IN  [root |-> root, exe |-> root \o ExeName]

\* root = the directory holding the launcher, exe = the launcher's full path
Installs ==
    { [root |-> <<"C", ":", "\\", "M", "y", "F", "o", "x">>,
       exe  |-> <<"C", ":", "\\", "M", "y", "F", "o", "x">> \o ExeName],
      [root |-> Drive,
       exe  |-> Drive \o Tail(ExeName)],
      [root |-> <<"\\", "\\", "s", "r", "v", "\\", "p", "u", "b">>,
       exe  |-> <<"\\", "\\", "s", "r", "v", "\\", "p", "u", "b">> \o ExeName],
      [root |-> <<"D", ":", "\\", "M", "y", " ", "F", "o", "x", "\\", "v", "1", ".", "2">>,
       exe  |-> <<"D", ":", "\\", "M", "y", " ", "F", "o", "x", "\\", "v", "1", ".", "2">> \o ExeName] }
    \cup { LongInstall(n) : n \in {MAX_PATH - 2, MAX_PATH - 1, MAX_PATH, MAX_PATH + 1} }

\* --------------------------------------------------------------- state
VARIABLES
    install,    \* the installation: [root, exe] (fixed by the environment)
    files,      \* files the file system reports (the candidate binaries)
    dirs,       \* directories the file system reports
    run,        \* how many times the launcher has been started
    pc,         \* position of the current run in wWinMain
    len,        \* DWORD len
    base,       \* WCHAR base[]
    ff_exe,     \* WCHAR ff_exe[]
    profile,    \* WCHAR profile[]
    data_dir,   \* WCHAR data_dir[]
    ff_dir,     \* WCHAR ff_dir[]
    cmdline,    \* WCHAR cmdline[]
    lastError,  \* the thread's last-error code
    handles,    \* handles of pi that are open
    exitCode,   \* return value of wWinMain, -1 while running
    checks,     \* GetFileAttributesW calls of this run: [path, found]
    mkdirs,     \* CreateDirectoryW calls of this run: [path, ok, err]
    spawns,     \* CreateProcessW calls of this run: [app, cmdline, cwd, flags, err]
    dialogs,    \* MessageBoxW texts of this run
    trace,      \* the calls of this run, in order
    startDirs,  \* dirs when this run started
    prev        \* spawns of the run before this one

vars == <<install, files, dirs, run, pc, len, base, ff_exe, profile, data_dir,
          ff_dir, cmdline, lastError, handles, exitCode, checks, mkdirs,
          spawns, dialogs, trace, startDirs, prev>>

env == <<install, files, run, startDirs, prev>>

locals == <<len, base, ff_exe, profile, data_dir, ff_dir, cmdline>>

InstallRoot == install.root

\* The two places of the bundled binary, relative to the install directory.
Rel64 == <<"A", "p", "p", "\\", "F", "i", "r", "e", "f", "o", "x", "6", "4", "\\", "f", "i", "r", "e", "f", "o", "x", ".", "e", "x", "e">>

Rel32 == <<"A", "p", "p", "\\", "F", "i", "r", "e", "f", "o", "x", "\\", "f", "i", "r", "e", "f", "o", "x", ".", "e", "x", "e">>

Target64 == InstallRoot \o <<"\\">> \o Rel64

Target32 == InstallRoot \o <<"\\">> \o Rel32

DataDirectory == InstallRoot \o <<"\\", "D", "a", "t", "a">>

ProfileDirectory == DataDirectory \o <<"\\", "p", "r", "o", "f", "i", "l", "e">>

\* The state in which wWinMain is entered.
Entry ==
    /\ pc = "start"
    /\ len = 0
    /\ base = <<>> /\ ff_exe = <<>> /\ profile = <<>>
    /\ data_dir = <<>> /\ ff_dir = <<>> /\ cmdline = <<>>
    /\ lastError = 0
    /\ handles = {}
    /\ exitCode = -1
    /\ checks = <<>> /\ mkdirs = <<>> /\ spawns = <<>>
    /\ dialogs = <<>> /\ trace = <<>>

Init ==
    /\ install \in Installs
    /\ files \in SUBSET {Target64, Target32}
    /\ dirs \in { {InstallRoot},
                  {InstallRoot, DataDirectory},
                  {InstallRoot, DataDirectory, ProfileDirectory} }
    /\ run = 1
    /\ startDirs = dirs
    /\ prev = <<>>
    /\ Entry

\* ------------------------------------------------------------- wWinMain
BadLenZeroOnly(l) == l = 0

\* if (len == 0 || len >= MAX_PATH)
BadLen(l) == l = 0 \/ l >= MAX_PATH

\* DWORD len = GetModuleFileNameW(NULL, base, MAX_PATH); if (...)
GetModulePath ==
    /\ pc = "start"
    /\ \E fails \in BOOLEAN :
         /\ len' = GetModuleFileNameW(install.exe, MAX_PATH, fails)
         /\ base' = IF fails THEN <<>> ELSE StringCch(MAX_PATH, install.exe)
    /\ pc' = IF BadLen(len') THEN "path_error" ELSE "strip"
    /\ trace' = Append(trace, "GetModuleFileNameW")
    /\ UNCHANGED <<env, dirs, ff_exe, profile, data_dir, ff_dir, cmdline,
                   lastError, handles, exitCode, checks, mkdirs, spawns, dialogs>>

\* MessageBoxW(NULL, L"Failed to get executable path.", ...); return 1;
PathError ==
    /\ pc = "path_error"
    /\ dialogs' = Append(dialogs, PathErrorMsg)
    /\ exitCode' = 1
    /\ pc' = "exited"
    /\ trace' = trace \o <<"MessageBoxW", "return">>
    /\ UNCHANGED <<env, dirs, locals, lastError, handles, checks, mkdirs, spawns>>

\* PathRemoveFileSpecW(base);
StripBase ==
    /\ pc = "strip"
    /\ base' = PathRemoveFileSpecW(base)
    /\ pc' = "check64"
    /\ trace' = Append(trace, "PathRemoveFileSpecW")
    /\ UNCHANGED <<env, dirs, len, ff_exe, profile, data_dir, ff_dir, cmdline,
                   lastError, handles, exitCode, checks, mkdirs, spawns, dialogs>>

\* One candidate: format ff_exe, ask for its attributes, go to `hit' or `miss'.
TryCandidate(at, fmt, hit, miss) ==
    /\ pc = at
    /\ ff_exe' = StringCch(PathBufSize, base \o fmt)
    /\ LET found == HasAttributes(ff_exe', files, dirs)
       IN  /\ checks' = Append(checks, [path |-> ff_exe', found |-> found])
           /\ lastError' = IF found THEN lastError ELSE 2
           /\ pc' = IF found THEN hit ELSE miss
    /\ trace' = Append(trace, "GetFileAttributesW")
    /\ UNCHANGED <<env, dirs, len, base, profile, data_dir, ff_dir, cmdline,
                   handles, exitCode, mkdirs, spawns, dialogs>>

Check64Fallthrough == TryCandidate("check64", Fmt64, "check32", "check32")

\* StringCchPrintfW(ff_exe, ..., L"%s\\App\\Firefox64\\firefox.exe", base);
\* if (GetFileAttributesW(ff_exe) == INVALID_FILE_ATTRIBUTES) {
Check64 == TryCandidate("check64", Fmt64, "mkdata", "check32")

\* StringCchPrintfW(ff_exe, ..., L"%s\\App\\Firefox\\firefox.exe", base);
\* if (GetFileAttributesW(ff_exe) == INVALID_FILE_ATTRIBUTES) {
Check32 == TryCandidate("check32", Fmt32, "mkdata", "not_found")

NotFoundThenContinue ==
    /\ pc = "not_found"
    /\ dialogs' = Append(dialogs, NotFoundMsg)
    /\ pc' = "mkdata"
    /\ trace' = Append(trace, "MessageBoxW")
    /\ UNCHANGED <<env, dirs, locals, lastError, handles, exitCode, checks,
                   mkdirs, spawns>>

\* MessageBoxW(NULL, L"Firefox not found. ...", ...); return 1;
NotFound ==
    /\ pc = "not_found"
    /\ dialogs' = Append(dialogs, NotFoundMsg)
    /\ exitCode' = 1
    /\ pc' = "exited"
    /\ trace' = trace \o <<"MessageBoxW", "return">>
    /\ UNCHANGED <<env, dirs, locals, lastError, handles, checks, mkdirs, spawns>>

\* One CreateDirectoryW call whose result is not looked at.
MakeDir(path, next) ==
    /\ \E r \in CreateDirectoryW(path, files, dirs) :
         /\ dirs' = r.dirs
         /\ mkdirs' = Append(mkdirs, [path |-> path, ok |-> r.ok, err |-> r.err])
         /\ lastError' = IF r.ok THEN lastError ELSE r.err
    /\ pc' = next
    /\ trace' = Append(trace, "CreateDirectoryW")

CreateDataChecked ==
    /\ pc = "mkdata"
    /\ data_dir' = StringCch(PathBufSize, base \o FmtData)
    /\ profile' = StringCch(PathBufSize, base \o FmtProfile)
    /\ \E r \in CreateDirectoryW(data_dir', files, dirs) :
         /\ dirs' = r.dirs
         /\ mkdirs' = Append(mkdirs, [path |-> data_dir', ok |-> r.ok, err |-> r.err])
         /\ lastError' = IF r.ok THEN lastError ELSE r.err
         /\ IF r.ok
            THEN /\ pc' = "mkprofile"
                 /\ trace' = Append(trace, "CreateDirectoryW")
                 /\ UNCHANGED <<dialogs, exitCode>>
            ELSE /\ pc' = "exited"
                 /\ trace' = trace \o <<"CreateDirectoryW", "MessageBoxW", "return">>
                 /\ dialogs' = Append(dialogs, PathErrorMsg)
                 /\ exitCode' = 1
    /\ UNCHANGED <<env, len, base, ff_exe, ff_dir, cmdline, handles, checks, spawns>>

\* StringCchPrintfW(data_dir, ..., L"%s\\Data", base);
\* StringCchPrintfW(profile, ..., L"%s\\Data\\profile", base);
\* CreateDirectoryW(data_dir, NULL);
CreateData ==
    /\ pc = "mkdata"
    /\ data_dir' = StringCch(PathBufSize, base \o FmtData)
    /\ profile' = StringCch(PathBufSize, base \o FmtProfile)
    /\ MakeDir(data_dir', "mkprofile")
    /\ UNCHANGED <<env, len, base, ff_exe, ff_dir, cmdline, handles, exitCode,
                   checks, spawns, dialogs>>

CreateProfileSkipped ==
    /\ pc = "mkprofile"
    /\ IF mkdirs[Len(mkdirs)].ok \/ mkdirs[Len(mkdirs)].err = 183
       THEN MakeDir(profile, "build")
       ELSE /\ pc' = "build"
            /\ UNCHANGED <<dirs, mkdirs, lastError, trace>>
    /\ UNCHANGED <<env, locals, handles, exitCode, checks, spawns, dialogs>>

\* CreateDirectoryW(profile, NULL);
CreateProfile ==
    /\ pc = "mkprofile"
    /\ MakeDir(profile, "build")
    /\ UNCHANGED <<env, locals, handles, exitCode, checks, spawns, dialogs>>

\* L"\"%s\" -profile \"%s\" -no-remote", ff_exe, profile
CmdlineFormat(exe, prof) ==
    Quote \o exe \o Quote \o OptProfile \o Quote \o prof \o Quote \o OptNoRemote

WorkingDirIsBase(exe) == base

\* StringCchCopyW(ff_dir, ARRAYSIZE(ff_dir), ff_exe); PathRemoveFileSpecW(ff_dir);
WorkingDir(exe) == PathRemoveFileSpecW(StringCch(PathBufSize, exe))

\* StringCchPrintfW(cmdline, ARRAYSIZE(cmdline), ...); and the working directory
BuildCmdline ==
    /\ pc = "build"
    /\ cmdline' = StringCch(CmdlineSize, CmdlineFormat(ff_exe, profile))
    /\ ff_dir' = WorkingDir(ff_exe)
    /\ pc' = "spawn"
    /\ trace' = Append(trace, "StringCchPrintfW")
    /\ UNCHANGED <<env, dirs, len, base, ff_exe, profile, data_dir, lastError,
                   handles, exitCode, checks, mkdirs, spawns, dialogs>>

\* if (!CreateProcessW(ff_exe, cmdline, NULL, NULL, FALSE, DETACHED_PROCESS,
\*                     NULL, ff_dir, &si, &pi)) {
Spawn ==
    /\ pc = "spawn"
    /\ \E e \in SpawnOutcomes :
         /\ spawns' = Append(spawns, [app |-> ff_exe, cmdline |-> cmdline,
                                      cwd |-> ff_dir, flags |-> "DETACHED_PROCESS",
                                      err |-> e])
         /\ lastError' = IF e = 0 THEN lastError ELSE e
         /\ handles' = IF e = 0 THEN {"hProcess", "hThread"} ELSE {}
         /\ pc' = IF e = 0 THEN "close" ELSE "spawn_error"
    /\ trace' = Append(trace, "CreateProcessW")
    /\ UNCHANGED <<env, dirs, locals, exitCode, checks, mkdirs, dialogs>>

SpawnErrorNoCode ==
    /\ pc = "spawn_error"
    /\ dialogs' = Append(dialogs, StringCch(ErrMsgSize, SpawnErrorFmt))
    /\ exitCode' = 1
    /\ pc' = "exited"
    /\ trace' = trace \o <<"MessageBoxW", "return">>
    /\ UNCHANGED <<env, dirs, locals, lastError, handles, checks, mkdirs, spawns>>

SpawnErrorRetry ==
    /\ pc = "spawn_error"
    /\ dialogs' = Append(dialogs,
                    StringCch(ErrMsgSize, SpawnErrorFmt \o FormatLu(lastError)))
    /\ pc' = IF Len(spawns) < 2 THEN "spawn" ELSE "exited"
    /\ exitCode' = IF Len(spawns) < 2 THEN exitCode ELSE 1
    /\ trace' = Append(trace, "MessageBoxW")
    /\ UNCHANGED <<env, dirs, locals, lastError, handles, checks, mkdirs, spawns>>

SpawnErrorExitZero ==
    /\ pc = "spawn_error"
    /\ dialogs' = Append(dialogs,
                    StringCch(ErrMsgSize, SpawnErrorFmt \o FormatLu(lastError)))
    /\ exitCode' = 0
    /\ pc' = "exited"
    /\ trace' = trace \o <<"MessageBoxW", "return">>
    /\ UNCHANGED <<env, dirs, locals, lastError, handles, checks, mkdirs, spawns>>

\* StringCchPrintfW(err_msg, ..., L"Failed to launch Firefox.\n\nError code: %lu",
\*                  GetLastError()); MessageBoxW(...); return 1;
SpawnError ==
    /\ pc = "spawn_error"
    /\ dialogs' = Append(dialogs,
                    StringCch(ErrMsgSize, SpawnErrorFmt \o FormatLu(lastError)))
    /\ exitCode' = 1
    /\ pc' = "exited"
    /\ trace' = trace \o <<"MessageBoxW", "return">>
    /\ UNCHANGED <<env, dirs, locals, lastError, handles, checks, mkdirs, spawns>>

\* CloseHandle(pi.hProcess); CloseHandle(pi.hThread); return 0;
CloseHandles ==
    /\ pc = "close"
    /\ handles' = {}
    /\ exitCode' = 0
    /\ pc' = "exited"
    /\ trace' = trace \o <<"CloseHandle", "CloseHandle", "return">>
    /\ UNCHANGED <<env, dirs, locals, lastError, checks, mkdirs, spawns, dialogs>>

\* The user starts the launcher again in the same installation.
Relaunch ==
    /\ pc = "exited"
    /\ run < MaxRuns
    /\ run' = run + 1
    /\ startDirs' = dirs
    /\ prev' = spawns
    /\ pc' = "start"
    /\ len' = 0
    /\ base' = <<>> /\ ff_exe' = <<>> /\ profile' = <<>>
    /\ data_dir' = <<>> /\ ff_dir' = <<>> /\ cmdline' = <<>>
    /\ lastError' = 0
    /\ handles' = {}
    /\ exitCode' = -1
    /\ checks' = <<>> /\ mkdirs' = <<>> /\ spawns' = <<>>
    /\ dialogs' = <<>> /\ trace' = <<>>
    /\ UNCHANGED <<install, files, dirs>>

Next ==
    \/ GetModulePath
    \/ PathError
    \/ StripBase
    \/ Check64
    \/ Check32
    \/ NotFound
    \/ CreateData
    \/ CreateProfile
    \/ BuildCmdline
    \/ Spawn
    \/ SpawnError
    \/ CloseHandles
    \/ Relaunch

Spec == Init /\ [][Next]_vars

\* -------------------------------------------------------------- typing
TypeOK ==
    /\ pc \in {"start", "path_error", "strip", "check64", "check32", "not_found",
               "mkdata", "mkprofile", "build", "spawn", "spawn_error", "close",
               "exited"}
    /\ run \in 1..(MaxRuns + 1)
    /\ exitCode \in {-1, 0, 1}
    /\ handles \subseteq {"hProcess", "hThread"}

\* ------------------------------------------------------------ properties
Last(s) == s[Len(s)]

Contains(s, sub) ==
    \E i \in 1..(Len(s) - Len(sub) + 1) : SubSeq(s, i, i + Len(sub) - 1) = sub

Count(s, x) == Cardinality({i \in 1..Len(s) : s[i] = x})

Exited == pc = "exited"

\* The candidate search of this run has ended with a binary found.
TargetResolved == checks # <<>> /\ Last(checks).found

Dir64 == <<"\\", "A", "p", "p", "\\", "F", "i", "r", "e", "f", "o", "x", "6", "4">>

Dir32 == <<"\\", "A", "p", "p", "\\", "F", "i", "r", "e", "f", "o", "x">>

\* The command line the invocation contract asks for, for a target path.
ContractCmdline(target) ==
    <<"\"">> \o target \o <<"\"", " ", "-", "p", "r", "o", "f", "i", "l", "e", " ", "\"">>
    \o ProfileDirectory \o <<"\"", " ", "-", "n", "o", "-", "r", "e", "m", "o", "t", "e">>

\* C1: when App\Firefox64\firefox.exe exists at the check, the target is
\* InstallRoot\App\Firefox64\firefox.exe whether or not App\Firefox\firefox.exe
\* exists, and the App\Firefox check is never made; App\Firefox\firefox.exe is
\* the target only after a failed Firefox64 check and a successful Firefox check.
C1_Firefox64HasPriority ==
    /\ (checks # <<>> /\ Target64 \in files) =>
          /\ checks = <<[path |-> Target64, found |-> TRUE]>>
          /\ ff_exe = Target64
          /\ pc \notin {"check32", "not_found"}
          /\ \A i \in 1..Len(spawns) : spawns[i].app = Target64
    /\ (TargetResolved /\ ff_exe = Target32) =>
          checks = <<[path |-> Target64, found |-> FALSE],
                     [path |-> Target32, found |-> TRUE]>>
    /\ \A i \in 1..Len(spawns) :
          spawns[i].app = Target32 =>
             checks = <<[path |-> Target64, found |-> FALSE],
                        [path |-> Target32, found |-> TRUE]>>

C1_Witness ==
    /\ {Target64, Target32} \subseteq files
    /\ spawns # <<>>
    /\ spawns[1].app = Target64
    /\ Len(checks) = 1

\* C2 as stated: in every install with neither candidate, the finished run has
\* shown one dialog naming both relative paths, has exit status 1, and has made
\* no directory creation and no spawn.
C2_Original ==
    (Exited /\ files \cap {Target64, Target32} = {}) =>
       /\ Len(dialogs) = 1
       /\ Contains(dialogs[1], Rel64)
       /\ Contains(dialogs[1], Rel32)
       /\ exitCode = 1
       /\ mkdirs = <<>> /\ spawns = <<>> /\ dirs = startDirs

\* C2 (amended): in every install with neither candidate, the finished run has
\* shown exactly one dialog, has exit status 1 and has made no directory
\* creation and no spawn; when the launcher's own path was resolved, that dialog
\* names both relative paths.
C2_NeitherCandidate ==
    (Exited /\ files \cap {Target64, Target32} = {}) =>
       /\ Len(dialogs) = 1
       /\ exitCode = 1
       /\ mkdirs = <<>> /\ spawns = <<>> /\ dirs = startDirs
       /\ ~BadLen(len) =>
             /\ Contains(dialogs[1], Rel64)
             /\ Contains(dialogs[1], Rel32)
             /\ Len(checks) = 2

C2_Witness ==
    /\ Exited
    /\ files = {}
    /\ Len(checks) = 2
    /\ Len(dialogs) = 1
    /\ Contains(dialogs[1], Rel64)
    /\ exitCode = 1

\* C3: a finished run has exit status 0 exactly when its spawn succeeded, and
\* status 1 otherwise; status 1 has one of three causes (own path not resolved,
\* no candidate found, spawn failed), so a failed directory creation alone
\* never changes the status.
C3_ExitStatus ==
    Exited =>
       /\ exitCode \in {0, 1}
       /\ exitCode = 0 <=> (spawns # <<>> /\ Last(spawns).err = 0)
       /\ exitCode = 1 =>
             \/ BadLen(len)
             \/ (Len(checks) = 2 /\ ~checks[1].found /\ ~checks[2].found)
             \/ (spawns # <<>> /\ Last(spawns).err # 0)

C3_Witness ==
    /\ Exited
    /\ exitCode = 0
    /\ Len(mkdirs) = 2
    /\ ~mkdirs[1].ok /\ mkdirs[1].err = 5
    /\ ProfileDirectory \notin dirs

\* C4: the command line of every spawn is exactly "<target>" -profile
\* "<InstallRoot>\Data\profile" -no-remote, uncut, for the candidate that was
\* found and every accepted InstallRoot.
C4_CommandLine ==
    \A i \in 1..Len(spawns) :
       /\ spawns[i].app \in {Target64, Target32}
       /\ spawns[i].app = Last(checks).path
       /\ spawns[i].cmdline = ContractCmdline(spawns[i].app)

C4_Witness ==
    /\ spawns # <<>>
    /\ Len(install.exe) = MAX_PATH - 1
    /\ spawns[1].app = Target32
    /\ Len(spawns[1].cmdline) > 2 * MAX_PATH

\* C5: the working directory of every spawn is the directory of the selected
\* binary (InstallRoot\App\Firefox64 or InstallRoot\App\Firefox, matching the
\* candidate), never InstallRoot.
C5_WorkingDirectory ==
    \A i \in 1..Len(spawns) :
       /\ spawns[i].app = Target64 => spawns[i].cwd = InstallRoot \o Dir64
       /\ spawns[i].app = Target32 => spawns[i].cwd = InstallRoot \o Dir32
       /\ spawns[i].app \in {Target64, Target32}
       /\ spawns[i].cwd # InstallRoot

C5_Witness ==
    /\ spawns # <<>>
    /\ InstallRoot = <<"C", ":", "\\">>
    /\ spawns[1].app = Target32
    /\ spawns[1].cwd = <<"C", ":", "\\", "\\", "A", "p", "p", "\\", "F", "i", "r", "e", "f", "o", "x">>

\* C6: when GetModuleFileNameW returns 0 or a length not below the buffer size,
\* the run shows an error dialog and exits with status 1 with no candidate check,
\* no directory creation and no spawn.
C6_PathResolutionError ==
    (trace # <<>> /\ (len = 0 \/ len >= MAX_PATH)) =>
       /\ pc \in {"path_error", "exited"}
       /\ checks = <<>> /\ mkdirs = <<>> /\ spawns = <<>>
       /\ dirs = startDirs
       /\ Exited => (dialogs = <<PathErrorMsg>> /\ exitCode = 1)

C6_Witness ==
    /\ Exited
    /\ len = MAX_PATH
    /\ Len(install.exe) = MAX_PATH
    /\ Len(dialogs) = 1
    /\ exitCode = 1

\* C7: after a failed process creation the run shows one dialog whose text
\* carries that failure's error code, exits with status 1, has made exactly one
\* spawn attempt, and every directory it created is still there.
C7_SpawnError ==
    /\ (Exited /\ spawns # <<>> /\ spawns[1].err # 0) =>
          /\ Len(dialogs) = 1
          /\ dialogs[1] = SpawnErrorFmt \o FormatLu(spawns[1].err)
          /\ exitCode = 1
          /\ Len(spawns) = 1
          /\ \A i \in 1..Len(mkdirs) : mkdirs[i].ok => mkdirs[i].path \in dirs
    /\ Len(spawns) <= 1
    /\ startDirs \subseteq dirs

C7_Witness ==
    /\ Exited
    /\ Len(spawns) = 1
    /\ spawns[1].err = 740
    /\ Contains(dialogs[1], <<"7", "4", "0">>)
    /\ mkdirs[1].ok /\ mkdirs[2].ok
    /\ {DataDirectory, ProfileDirectory} \subseteq dirs
    /\ DataDirectory \notin startDirs

\* C8: a second run in an install where Data and Data\profile already exist and
\* whose earlier run attempted a spawn: both directory creations fail without a
\* dialog and without ending the run, the directories stay as they were, and
\* the run attempts one spawn with the target, command line and working
\* directory of the earlier run.
C8_SecondRun ==
    (run >= 2 /\ {DataDirectory, ProfileDirectory} \subseteq startDirs) =>
       /\ dirs = startDirs
       /\ \A i \in 1..Len(mkdirs) : ~mkdirs[i].ok /\ mkdirs[i].err = 183
       /\ (mkdirs # <<>> /\ spawns = <<>>) => (dialogs = <<>> /\ ~Exited)
       /\ (Exited /\ ~BadLen(len) /\ prev # <<>>) =>
             /\ Len(mkdirs) = 2
             /\ Len(spawns) = 1
             /\ spawns[1].app = prev[1].app
             /\ spawns[1].cmdline = prev[1].cmdline
             /\ spawns[1].cwd = prev[1].cwd
             /\ dialogs # <<>> => spawns[1].err # 0

C8_Witness ==
    /\ run = 2
    /\ Exited
    /\ {DataDirectory, ProfileDirectory} \subseteq startDirs
    /\ prev # <<>>
    /\ Len(mkdirs) = 2
    /\ Len(spawns) = 1
    /\ spawns[1].cmdline = prev[1].cmdline
    /\ exitCode = 0

\* C9: once a target is resolved, a failed directory creation (already exists
\* or not) shows no dialog and does not end the run: Data\profile is still
\* tried after Data failed, and the spawn is still attempted with the same
\* command line even when Data\profile does not exist.
C9_DirectoryFailureIgnored ==
    /\ (mkdirs # <<>> /\ spawns = <<>>) => (dialogs = <<>> /\ ~Exited)
    /\ pc \in {"build", "spawn", "spawn_error", "close"} =>
          (Len(mkdirs) = 2 /\ mkdirs[1].path = DataDirectory
                           /\ mkdirs[2].path = ProfileDirectory)
    /\ (TargetResolved /\ Exited) =>
          /\ Len(mkdirs) = 2
          /\ Len(spawns) = 1
          /\ spawns[1].cmdline = ContractCmdline(Last(checks).path)
          /\ dialogs # <<>> => spawns[1].err # 0

C9_Witness ==
    /\ Exited
    /\ Len(mkdirs) = 2
    /\ mkdirs[1].err = 5
    /\ mkdirs[2].err = 3
    /\ ProfileDirectory \notin dirs
    /\ Len(spawns) = 1
    /\ dialogs = <<>>

\* C10: the steps of a run come in one order, none repeated: candidate checks
\* before any directory creation, Data before Data\profile, both creations
\* before the spawn, at most one spawn, and the two handles are closed only
\* after a successful spawn and before the exit, never on a failure path.
C10_StepOrder ==
    /\ \A i, j \in 1..Len(trace) :
          (i < j /\ trace[i] = "CreateDirectoryW") => trace[j] # "GetFileAttributesW"
    /\ \A i, j \in 1..Len(trace) :
          (i < j /\ trace[i] = "CreateProcessW") =>
             trace[j] \notin {"CreateDirectoryW", "GetFileAttributesW", "CreateProcessW"}
    /\ \A i \in 1..Len(trace) :
          trace[i] = "CreateProcessW" =>
             Count(SubSeq(trace, 1, i), "CreateDirectoryW") = 2
    /\ Count(trace, "GetModuleFileNameW") <= 1
    /\ Count(trace, "GetFileAttributesW") = Len(checks) /\ Len(checks) <= 2
    /\ Count(trace, "CreateDirectoryW") = Len(mkdirs) /\ Len(mkdirs) <= 2
    /\ Count(trace, "CreateProcessW") = Len(spawns) /\ Len(spawns) <= 1
    /\ Count(trace, "return") <= 1
    /\ Len(checks) = 2 => checks[1].path # checks[2].path
    /\ Len(mkdirs) >= 1 => mkdirs[1].path = DataDirectory
    /\ Len(mkdirs) = 2 => mkdirs[2].path = ProfileDirectory
    /\ \A i \in 1..Len(trace) :
          trace[i] = "CloseHandle" =>
             /\ \E j \in 1..(i - 1) : trace[j] = "CreateProcessW"
             /\ spawns[1].err = 0
             /\ \A j \in 1..i : trace[j] # "return"
    /\ \A i \in 1..Len(trace) : trace[i] = "return" => i = Len(trace)
    /\ Exited <=> (trace # <<>> /\ Last(trace) = "return")
    /\ (Exited /\ exitCode = 1) => Count(trace, "CloseHandle") = 0
    /\ (Exited /\ exitCode = 0) => Count(trace, "CloseHandle") = 2
    /\ handles # {} => pc = "close"

C10_Witness ==
    /\ Exited
    /\ exitCode = 0
    /\ trace = <<"GetModuleFileNameW", "PathRemoveFileSpecW", "GetFileAttributesW",
                 "GetFileAttributesW", "CreateDirectoryW", "CreateDirectoryW",
                 "StringCchPrintfW", "CreateProcessW", "CloseHandle", "CloseHandle",
                 "return">>

====
